---------------------------- MODULE Spec2Model ----------------------------
(***************************************************************************)
(* Model of bootstrap/widgets.py (django-bootstrap): the tri-state radio   *)
(* widget, BootstrapWidget.build_attrs, TemplateWidget and ModelWidgets.   *)
(*                                                                         *)
(* Python values are records [t, n, s]: t is the Python type name, n the   *)
(* numeric value of a bool / int / float, s the text of a str.             *)
(***************************************************************************)
EXTENDS Integers, Sequences, FiniteSets, TLC

VARIABLES
    nbrs,           \* the NullBooleanRadioSelect instance (its choices)
    triCall,        \* the last render / value_from_datadict call and its outcome
    extra_attrs,    \* the class-level extra_attrs dicts, by defining class
    widget,         \* the BootstrapWidget instance: class, attrs, is_required
    baCall,         \* the build_attrs call made on it and what it returned
    mw,             \* the ModelWidgets instance: model_class, overrides
    it,             \* the generator made by iter(mw)
    mwCall,         \* the last mw[key] / len(mw) call and its outcome
    extra_context,  \* the class-level dict TemplateWidget.extra_context
    tws,            \* the TemplateWidget instances made so far
    given,          \* history: the **extra_context each constructor call got
    twCall          \* the last TemplateWidget.render call and its outcome

vars == <<nbrs, triCall, extra_attrs, widget, baCall, mw, it, mwCall,
          extra_context, tws, given, twCall>>
twVars == <<extra_context, tws, given, twCall>>
triVars == <<nbrs, triCall>>
baVars == <<extra_attrs, widget, baCall>>
mwVars == <<mw, it, mwCall>>

---------------------------------------------------------------------------
(* Python values                                                           *)

PyBool(b) == [t |-> "bool", n |-> IF b THEN 1 ELSE 0, s |-> ""]
PyInt(i) == [t |-> "int", n |-> i, s |-> ""]
PyFloat(i) == [t |-> "float", n |-> i, s |-> ""]
PyStr(x) == [t |-> "str", n |-> 0, s |-> x]
PyNone == [t |-> "NoneType", n |-> 0, s |-> ""]
PyList == [t |-> "list", n |-> 0, s |-> ""]

PyTrue == PyBool(TRUE)
PyFalse == PyBool(FALSE)

\* The values handed to the tri-state widget.
PyValues ==
    { PyTrue, PyFalse, PyNone, PyList,
      PyInt(0), PyInt(1), PyInt(2), PyFloat(1),
      PyStr("1"), PyStr("2"), PyStr("3"), PyStr("True"), PyStr("False"),
      PyStr("") }

\* bool is a subclass of int; bool, int and float compare (and hash) by number.
IsNumber(v) == v.t \in {"bool", "int", "float"}

\* Python ==, as a dict uses it to match a hashed key.
PyEq(a, b) ==
    IF IsNumber(a) /\ IsNumber(b) THEN a.n = b.n ELSE a = b

\* hash(v) raises TypeError for a list.
Hashable(v) == v.t # "list"

\* d[key] on a dict literal given as a sequence of <<key, value>> pairs.
DictGetItem(d, key) ==
    IF ~Hashable(key) THEN [exc |-> "TypeError", val |-> PyNone]
    ELSE IF \E i \in 1..Len(d) : PyEq(d[i][1], key)
         THEN [exc |-> "none",
               val |-> d[CHOOSE i \in 1..Len(d) : PyEq(d[i][1], key)][2]]
         ELSE [exc |-> "KeyError", val |-> PyNone]

\* d.get(key): None instead of KeyError.
DictGet(d, key) ==
    LET r == DictGetItem(d, key)
    IN  IF r.exc = "KeyError" THEN [exc |-> "none", val |-> PyNone] ELSE r


---------------------------------------------------------------------------
(* Text and dicts                                                          *)
(* A str is a sequence of atoms: SP is one whitespace character, any other *)
(* atom is a run of non-whitespace characters.                             *)

SP == " "

\* str.lstrip / str.rstrip / str.strip
RECURSIVE LStrip(_)
LStrip(s) ==
    IF s = <<>> THEN s
    ELSE IF Head(s) = SP THEN LStrip(Tail(s)) ELSE s

RECURSIVE RStrip(_)
RStrip(s) ==
    IF s = <<>> THEN s
    ELSE IF s[Len(s)] = SP THEN RStrip(SubSeq(s, 1, Len(s) - 1)) ELSE s

StripLeftOnly(s) == LStrip(s)

Strip(s) == RStrip(LStrip(s))

\* sep.join(parts)
RECURSIVE Join(_, _)
Join(sep, parts) ==
    IF parts = <<>> THEN <<>>
    ELSE IF Len(parts) = 1 THEN parts[1]
    ELSE parts[1] \o sep \o Join(sep, Tail(parts))

\* '%s %s' % (a, b)
Format2(a, b) == a \o <<SP>> \o b

EmptyDict == [k \in {} |-> <<>>]

DictUpdateKeepOld(d, e) ==
    [k \in DOMAIN d \cup DOMAIN e |-> IF k \in DOMAIN d THEN d[k] ELSE e[k]]

\* d.update(e), and dict(d, **e)
DictUpdate(d, e) ==
    [k \in DOMAIN d \cup DOMAIN e |-> IF k \in DOMAIN e THEN e[k] ELSE d[k]]

\* d.get(key, default)
DictGetDefault(d, key, default) ==
    IF key \in DOMAIN d THEN d[key] ELSE default

---------------------------------------------------------------------------
(* BootstrapWidget and its subclasses                                      *)

WidgetClasses ==
    { "TextInput", "AutofocusTextInput", "PasswordInput",
      "AutofocusPasswordInput", "Textarea", "AutofocusTextarea",
      "DateInput", "TimeInput", "DateTimeInput", "Select", "SelectMultiple",
      "RadioSelect", "CheckboxSelectMultiple", "NullBooleanSelect",
      "NullBooleanRadioSelect", "EmailInput", "NumberInput" }

\* The first base of each class that is defined in this module.
Base(cls) ==
    CASE cls \in {"AutofocusTextInput", "EmailInput", "NumberInput"}
            -> "TextInput"
      [] cls = "AutofocusPasswordInput" -> "PasswordInput"
      [] cls = "AutofocusTextarea" -> "Textarea"
      [] cls = "NullBooleanRadioSelect" -> "RadioSelect"
      [] OTHER -> "BootstrapWidget"

\* css_classes as each class body sets it.
OwnCssClasses ==
    [c \in {"BootstrapWidget", "DateInput", "TimeInput", "DateTimeInput",
            "RadioSelect", "CheckboxSelectMultiple"} |->
        CASE c = "BootstrapWidget" -> << <<"form-control">> >>
          [] c = "DateInput" -> << <<"form-control">>, <<"date">> >>
          [] c = "TimeInput" -> << <<"form-control">>, <<"time">> >>
          [] c = "DateTimeInput" -> << <<"form-control">>, <<"datetime">> >>
          [] OTHER -> <<>>]

\* Attribute lookup along the bases.
RECURSIVE CssClasses(_)
CssClasses(cls) ==
    IF cls \in DOMAIN OwnCssClasses THEN OwnCssClasses[cls]
    ELSE CssClasses(Base(cls))

\* extra_attrs as each class body sets it.
ClassDefExtraAttrs ==
    [c \in {"BootstrapWidget", "AutofocusTextInput", "AutofocusPasswordInput",
            "AutofocusTextarea"} |->
        IF c = "BootstrapWidget" THEN EmptyDict
        ELSE [k \in {"autofocus"} |-> <<"autofocus">>]]

RECURSIVE ExtraAttrsOf(_, _)
ExtraAttrsOf(dicts, cls) ==
    IF cls \in DOMAIN dicts THEN dicts[cls]
    ELSE ExtraAttrsOf(dicts, Base(cls))

MaxClassLen == 2

\* The class strings a caller supplies: up to MaxClassLen atoms.
ClassValues ==
    UNION { [1..n -> {"foo", SP}] : n \in 0..MaxClassLen }

OtherKeys == {"aria-required", "autofocus", "name"}

\* Dicts holding an optional 'class' and some other keys, each with value v.
AttrDicts(v) ==
    { DictUpdate([k \in ks |-> <<v>>], c) :
        ks \in SUBSET OtherKeys,
        c \in {EmptyDict} \cup { [k \in {"class"} |-> x] : x \in ClassValues } }

\* The attrs given to the constructor, the extra_attrs argument (None or a
\* dict) and the keyword arguments of a build_attrs call.
InstanceAttrs == AttrDicts("i")
CallExtraAttrs ==
    {[none |-> TRUE, d |-> EmptyDict]}
        \cup { [none |-> FALSE, d |-> d] : d \in AttrDicts("c") }
CallKwargs == {EmptyDict, [k \in {"name"} |-> <<"k">>]}

Truthy(arg) == ~arg.none /\ DOMAIN arg.d # {}

RequiredDefaultNever(w) == EmptyDict

\* if self.is_required: attrs['aria-required'] = 'true'
RequiredDefault(w) ==
    IF w.is_required THEN [k \in {"aria-required"} |-> <<"true">>]
    ELSE EmptyDict

BuildAttrsResult(dicts, w, arg, kwargs) ==
    LET attrs0 == DictUpdate(w.attrs, kwargs)
        attrs1 == DictUpdate(attrs0, RequiredDefault(w))
        attrs2 == DictUpdate(attrs1, ExtraAttrsOf(dicts, w.cls))
        attrs3 == IF Truthy(arg) THEN DictUpdate(attrs2, arg.d) ELSE attrs2
        new_class == Format2(DictGetDefault(attrs3, "class", <<>>),
                             Join(<<SP>>, CssClasses(w.cls)))
    IN  DictUpdate(attrs3, [k \in {"class"} |-> Strip(new_class)])

BaIdle == [op |-> "idle", extra |-> [none |-> TRUE, d |-> EmptyDict],
           kwargs |-> EmptyDict, result |-> EmptyDict]

\* One widget, not yet asked for its attributes.
BaQuiet ==
    /\ extra_attrs = ClassDefExtraAttrs
    /\ widget = [cls |-> "TextInput", attrs |-> EmptyDict, is_required |-> FALSE]
    /\ baCall = BaIdle

BaInit ==
    /\ extra_attrs = ClassDefExtraAttrs
    /\ \E cls \in WidgetClasses, a \in InstanceAttrs, r \in BOOLEAN :
           widget = [cls |-> cls, attrs |-> a, is_required |-> r]
    /\ baCall = BaIdle

\* widget.build_attrs(extra_attrs, **kwargs).  build_attrs writes nothing
\* but its own local dict, so one call per widget state is every call.
BuildAttrs(arg, kwargs) ==
    /\ baCall.op = "idle"
    /\ baCall' = [op |-> "build_attrs", extra |-> arg, kwargs |-> kwargs,
                  result |-> BuildAttrsResult(extra_attrs, widget, arg, kwargs)]
    /\ UNCHANGED <<extra_attrs, widget>>
    /\ UNCHANGED <<triVars, mwVars, twVars>>

BaNext ==
    \E arg \in CallExtraAttrs, kwargs \in CallKwargs : BuildAttrs(arg, kwargs)

---------------------------------------------------------------------------
(* ModelWidgets                                                            *)

MaxFields == 2
MaxOverrides == 2

FieldNames == {"id", "title", "done"}
LookupKeys == FieldNames \cup {"nosuch"}

\* What field.formfield() gives: a form field whose widget is an instance
\* of one of these Django classes, or None for a field that has no form
\* field (Django's AutoField).
DjangoWidgets == {"forms.TextInput", "forms.Select", "forms.CheckboxInput"}
NoFormField == "None"
FormFields == DjangoWidgets \cup {NoFormField}

\* Sequences without repetition of up to n elements of S.
DistinctSeqs(S, n) ==
    { q \in UNION { [1..m -> S] : m \in 0..n } :
        \A i, j \in 1..Len(q) : i # j => q[i] # q[j] }

\* model_class._meta.fields: the fields in declaration order, at least one.
ModelClasses ==
    UNION { { [i \in 1..Len(names) |-> [name |-> names[i], formfield |-> ws[i]]] :
                ws \in [1..Len(names) -> FormFields] } :
            names \in DistinctSeqs(FieldNames, MaxFields) \ {<<>>} }

\* The overrides argument: None, or a dict given by its keys in iteration
\* order; the widget held under key k is <<"override", k>>.
OverridesArgs ==
    {[none |-> TRUE, keys |-> <<>>]}
        \cup { [none |-> FALSE, keys |-> q] :
                 q \in DistinctSeqs(LookupKeys, MaxOverrides) }

\* overrides or {}
OverridesOrEmpty(arg) == IF arg.none \/ arg.keys = <<>> THEN <<>> ELSE arg.keys

Range(q) == { q[i] : i \in 1..Len(q) }

WidgetMapWithoutSelect ==
    [c \in {"forms.TextInput", "forms.PasswordInput", "forms.Textarea"} |->
        CASE c = "forms.TextInput" -> "TextInput"
          [] c = "forms.PasswordInput" -> "PasswordInput"
          [] OTHER -> "Textarea"]

\* widget_map: Django widget class -> styled class.
WidgetMap ==
    [c \in {"forms.TextInput", "forms.PasswordInput", "forms.Textarea",
            "forms.DateInput", "forms.TimeInput", "forms.DateTimeInput",
            "forms.Select", "forms.SelectMultiple", "forms.RadioSelect",
            "forms.CheckboxSelectMultiple", "forms.NullBooleanSelect",
            "forms.EmailInput", "forms.NumberInput"} |->
        CASE c = "forms.TextInput" -> "TextInput"
          [] c = "forms.PasswordInput" -> "PasswordInput"
          [] c = "forms.Textarea" -> "Textarea"
          [] c = "forms.DateInput" -> "DateInput"
          [] c = "forms.TimeInput" -> "TimeInput"
          [] c = "forms.DateTimeInput" -> "DateTimeInput"
          [] c = "forms.Select" -> "Select"
          [] c = "forms.SelectMultiple" -> "SelectMultiple"
          [] c = "forms.RadioSelect" -> "RadioSelect"
          [] c = "forms.CheckboxSelectMultiple" -> "CheckboxSelectMultiple"
          [] c = "forms.NullBooleanSelect" -> "NullBooleanSelect"
          [] c = "forms.EmailInput" -> "EmailInput"
          [] OTHER -> "NumberInput"]

\* A returned value: an override widget, a styled class, or the default
\* widget instance of a field (cls is its Django class).
Returned(kind, key, cls) == [exc |-> "none", kind |-> kind, key |-> key, cls |-> cls]
Raised(exc) == [exc |-> exc, kind |-> "", key |-> "", cls |-> ""]

HasField(m, key) == \E i \in 1..Len(m) : m[i].name = key

\* model_class._meta.get_field(key), for a key the model has.
GetField(m, key) == m[CHOOSE i \in 1..Len(m) : m[i].name = key]

GetItemResultDefaulting(self, key) ==
    IF key \in Range(self.overrides) THEN Returned("override", key, "")
    ELSE IF ~HasField(self.model_class, key) THEN Returned("instance", key, "")
    ELSE LET field == GetField(self.model_class, key)
         IN  IF field.formfield = NoFormField THEN Raised("AttributeError")
             ELSE IF field.formfield \in DOMAIN WidgetMap
                  THEN Returned("class", "", WidgetMap[field.formfield])
                  ELSE Returned("instance", key, field.formfield)

\* __getitem__
GetItemResult(self, key) ==
    IF key \in Range(self.overrides) THEN Returned("override", key, "")
    ELSE IF ~HasField(self.model_class, key) THEN Raised("FieldDoesNotExist")
    ELSE LET field == GetField(self.model_class, key)
         IN  IF field.formfield = NoFormField THEN Raised("AttributeError")
             ELSE IF field.formfield \in DOMAIN WidgetMap
                  THEN Returned("class", "", WidgetMap[field.formfield])
                  ELSE Returned("instance", key, field.formfield)

LenResultSum(self) == Len(self.overrides) + Len(self.model_class)

\* __len__
LenResult(self) ==
    LET key_set == Range(self.overrides)
        updated == key_set \cup { self.model_class[i].name :
                                    i \in 1..Len(self.model_class) }
    IN  Cardinality(updated)

\* The names bound at module level, and the locals of __iter__.
ModuleGlobals ==
    { "forms", "flatatt", "Context", "loader", "ugettext_lazy", "collections",
      "TemplateWidget", "BootstrapWidget", "TextInput", "AutofocusTextInput",
      "PasswordInput", "AutofocusPasswordInput", "Textarea",
      "AutofocusTextarea", "DateInput", "TimeInput", "DateTimeInput",
      "Select", "SelectMultiple", "RadioSelect", "CheckboxSelectMultiple",
      "NullBooleanSelect", "NullBooleanRadioSelect", "EmailInput",
      "NumberInput", "ModelWidgets" }
IterLocals == {"self", "seen", "key", "field"}

NameResolves(n) == n \in IterLocals \cup ModuleGlobals

ItFresh == [pc |-> "unstarted", seen |-> {}, pos |-> 0, yielded |-> <<>>,
            exc |-> "none"]

\* One next() on the generator of __iter__: it runs to the next yield, to
\* the end, or to an exception.  The first loop reads the bare name
\* overrides.
IterStep(self, g) ==
    LET fields == self.model_class
        rest(from) == { i \in from..Len(fields) : fields[i].name \notin g.seen }
        fieldLoop(from) ==
            IF rest(from) = {} THEN [g EXCEPT !.pc = "done"]
            ELSE LET i == CHOOSE i \in rest(from) : \A j \in rest(from) : i <= j
                 IN  [g EXCEPT !.pc = "fields", !.pos = i,
                               !.yielded = Append(@, fields[i].name)]
    IN  IF g.pc \in {"unstarted", "overrides"}
        THEN IF ~NameResolves("overrides")
             THEN [g EXCEPT !.pc = "raised", !.exc = "NameError"]
             ELSE IF g.pos < Len(self.overrides)
                  THEN [g EXCEPT !.pc = "overrides", !.pos = @ + 1,
                                 !.seen = @ \cup {self.overrides[g.pos + 1]},
                                 !.yielded = Append(@, self.overrides[g.pos + 1])]
                  ELSE fieldLoop(1)
        ELSE fieldLoop(g.pos + 1)

MwIdle == [op |-> "idle", key |-> "", result |-> Raised("none"), n |-> 0]

MwQuiet ==
    /\ mw = [model_class |-> <<[name |-> "id", formfield |-> NoFormField]>>,
             overrides |-> <<>>, arg_none |-> TRUE]
    /\ it = ItFresh
    /\ mwCall = MwIdle

\* ModelWidgets(model_class, overrides)
MwInit ==
    /\ \E m \in ModelClasses, o \in OverridesArgs :
           mw = [model_class |-> m, overrides |-> OverridesOrEmpty(o),
                 arg_none |-> o.none]
    /\ it = ItFresh
    /\ mwCall = MwIdle

\* mw[key]
GetItem(key) ==
    /\ mwCall' = [op |-> "getitem", key |-> key,
                  result |-> GetItemResult(mw, key), n |-> 0]
    /\ UNCHANGED <<mw, it>>
    /\ UNCHANGED <<triVars, baVars, twVars>>

\* len(mw)
LenCall ==
    /\ mwCall' = [op |-> "len", key |-> "", result |-> Raised("none"),
                  n |-> LenResult(mw)]
    /\ UNCHANGED <<mw, it>>
    /\ UNCHANGED <<triVars, baVars, twVars>>

\* next() on iter(mw)
IterNext ==
    /\ it.pc \notin {"done", "raised"}
    /\ it' = IterStep(mw, it)
    /\ UNCHANGED <<mw, mwCall>>
    /\ UNCHANGED <<triVars, baVars, twVars>>

MwNext ==
    \/ \E key \in LookupKeys : GetItem(key)
    \/ LenCall
    \/ IterNext

---------------------------------------------------------------------------
(* TemplateWidget                                                          *)

MaxInstances == 2

\* The templates the loader can find.
Templates == {"widget.html"}
TemplateArgs == {"", "widget.html", "missing.html"}

CtxKeys == {"title", "name"}
CtxKwargs == UNION { [S -> {<<"a">>, <<"b">>}] : S \in SUBSET CtxKeys }
TwAttrs == {EmptyDict, [k \in {"id"} |-> <<"i">>]}

\* extra_context as the class body sets it.
ClassDefExtraContext == EmptyDict

\* flatatt(attrs): the key="value" pairs, sorted by key.
Flatatt(attrs) ==
    LET order == <<"class", "id", "name">>
        pick(i) == IF order[i] \in DOMAIN attrs
                   THEN << <<order[i], attrs[order[i]]>> >> ELSE <<>>
    IN  pick(1) \o pick(2) \o pick(3)

\* forms.Widget.build_attrs(extra_attrs, **kwargs), which TemplateWidget
\* inherits.
WidgetBuildAttrs(self, arg, kwargs) ==
    LET attrs == DictUpdate(self.attrs, kwargs)
    IN  IF Truthy(arg) THEN DictUpdate(attrs, arg.d) ELSE attrs

\* The context values: a str, the flattened attrs, or the widget itself.
CtxStr(x) == [kind |-> "str", s |-> x, a |-> <<>>, w |-> 0]
CtxAttrs(a) == [kind |-> "attrs", s |-> <<>>, a |-> a, w |-> 0]
CtxWidget(i) == [kind |-> "widget", s |-> <<>>, a |-> <<>>, w |-> i]

\* The dict render hands to Context().
RenderParams(ctx, i, self, name, value, arg) ==
    LET input_attrs == Flatatt(WidgetBuildAttrs(self, arg, [k \in {"name"} |-> name]))
        params == [k \in {"name", "value", "attrs", "widget"} |->
                      CASE k = "name" -> CtxStr(name)
                        [] k = "value" -> CtxStr(value)
                        [] k = "attrs" -> CtxAttrs(input_attrs)
                        [] OTHER -> CtxWidget(i)]
    IN  DictUpdate(params, [k \in DOMAIN ctx |-> CtxStr(ctx[k])])

TwIdle == [op |-> "idle", inst |-> 0, exc |-> "none", params |-> EmptyDict]

TwInit ==
    /\ extra_context = ClassDefExtraContext
    /\ tws = <<>>
    /\ given = <<>>
    /\ twCall = TwIdle

\* TemplateWidget(template_name, attrs, **kwargs).  self.extra_context is
\* the class attribute: no instance ever binds its own.
Construct(template_name, attrs, kwargs) ==
    /\ Len(tws) < MaxInstances
    /\ tws' = Append(tws, [template_name |-> template_name, attrs |-> attrs])
    /\ extra_context' = DictUpdate(extra_context, kwargs)
    /\ given' = Append(given, kwargs)
    /\ UNCHANGED twCall
    /\ UNCHANGED <<triVars, baVars, mwVars>>

\* tws[i].render(name, value, attrs)
TwRender(i, name, value, arg) ==
    /\ IF tws[i].template_name \in Templates
       THEN twCall' = [op |-> "render", inst |-> i, exc |-> "none",
                       params |-> RenderParams(extra_context, i, tws[i],
                                               name, value, arg)]
       ELSE twCall' = [op |-> "render", inst |-> i,
                       exc |-> "TemplateDoesNotExist", params |-> EmptyDict]
    /\ UNCHANGED <<extra_context, tws, given>>
    /\ UNCHANGED <<triVars, baVars, mwVars>>

TwNext ==
    \/ \E t \in TemplateArgs, a \in TwAttrs, kw \in CtxKwargs :
           Construct(t, a, kw)
    \/ \E i \in 1..Len(tws), arg \in {[none |-> TRUE, d |-> EmptyDict],
                                     [none |-> FALSE, d |-> [k \in {"class"} |-> <<"c">>]]} :
           TwRender(i, <<"f">>, <<"v">>, arg)

---------------------------------------------------------------------------
(* NullBooleanRadioSelect                                                  *)

UnknownLabels == {PyNone, PyStr(""), PyStr("N/A")}

\* __init__: unknown_label or 'Unknown'.
Choices(unknown_label) ==
    << <<"1", IF unknown_label.t = "str" /\ unknown_label.s # ""
              THEN unknown_label.s ELSE "Unknown">>,
       <<"2", "Yes">>,
       <<"3", "No">> >>

RenderTableSwapped ==
    << <<PyTrue, PyStr("3")>>, <<PyFalse, PyStr("2")>>,
       <<PyStr("2"), PyStr("2")>>, <<PyStr("3"), PyStr("3")>> >>

\* The dict literal of render.
RenderTable ==
    << <<PyTrue, PyStr("2")>>, <<PyFalse, PyStr("3")>>,
       <<PyStr("2"), PyStr("2")>>, <<PyStr("3"), PyStr("3")>> >>

\* The value render hands to RadioSelect.render, or the exception it raises.
RenderValue(value) ==
    LET r == DictGetItem(RenderTable, value)
    IN  IF r.exc = "KeyError" THEN [exc |-> "none", val |-> PyStr("1")] ELSE r

ParseTableNoNative ==
    << <<PyStr("2"), PyTrue>>, <<PyStr("True"), PyTrue>>,
       <<PyStr("3"), PyFalse>>, <<PyStr("False"), PyFalse>> >>

\* The dict literal of value_from_datadict.
ParseTable ==
    << <<PyStr("2"), PyTrue>>, <<PyTrue, PyTrue>>, <<PyStr("True"), PyTrue>>,
       <<PyStr("3"), PyFalse>>, <<PyStr("False"), PyFalse>>,
       <<PyFalse, PyFalse>> >>

FormNames == {"flag", "other"}

\* The submitted data: a mapping from some names to values.
FormData ==
    UNION { [S -> PyValues] : S \in SUBSET FormNames }

\* data.get(name)
DataGet(data, name) ==
    IF name \in DOMAIN data THEN data[name] ELSE PyNone

ParseValue(data, name) == DictGet(ParseTable, DataGet(data, name))

TriIdle ==
    [op |-> "idle", value |-> PyNone, data |-> <<>>, name |-> "",
     exc |-> "none", out |-> PyNone]

TriQuiet ==
    /\ nbrs = [choices |-> Choices(PyNone)]
    /\ triCall = TriIdle

TriInit ==
    /\ \E u \in UnknownLabels : nbrs = [choices |-> Choices(u)]
    /\ triCall = TriIdle

Render(name, value) ==
    /\ LET r == RenderValue(value)
       IN  triCall' = [op |-> "render", value |-> value, data |-> <<>>,
                       name |-> name, exc |-> r.exc, out |-> r.val]
    /\ UNCHANGED nbrs
    /\ UNCHANGED <<baVars, mwVars, twVars>>

ValueFromDatadict(data, name) ==
    /\ LET r == ParseValue(data, name)
       IN  triCall' = [op |-> "value_from_datadict",
                       value |-> DataGet(data, name), data |-> data,
                       name |-> name, exc |-> r.exc, out |-> r.val]
    /\ UNCHANGED nbrs
    /\ UNCHANGED <<baVars, mwVars, twVars>>

TriNext ==
    \/ \E name \in FormNames, value \in PyValues : Render(name, value)
    \/ \E data \in FormData, name \in FormNames : ValueFromDatadict(data, name)

InitTri == TriInit /\ BaQuiet /\ MwQuiet /\ TwInit
InitAttrs == BaInit /\ TriQuiet /\ MwQuiet /\ TwInit
InitMW == MwInit /\ TriQuiet /\ BaQuiet /\ TwInit
InitTW == TwInit /\ TriQuiet /\ BaQuiet /\ MwQuiet

SpecTri == InitTri /\ [][TriNext]_vars
SpecAttrs == InitAttrs /\ [][BaNext]_vars
SpecMW == InitMW /\ [][MwNext]_vars
SpecTW == InitTW /\ [][TwNext]_vars

---------------------------------------------------------------------------
(* Claims about NullBooleanRadioSelect (checked under SpecTri)             *)

\* C1 as stated: render maps True to "2", False to "3", "2" and "3" to
\* themselves and every other value whatsoever (the integers 1 and 0, an
\* unhashable value, ...) to "1", and the mapping step never fails.
C1_AsStated ==
    triCall.op = "render" =>
        /\ triCall.exc = "none"
        /\ triCall.out =
             IF triCall.value = PyTrue THEN PyStr("2")
             ELSE IF triCall.value = PyFalse THEN PyStr("3")
             ELSE IF triCall.value \in {PyStr("2"), PyStr("3")}
                  THEN triCall.value
             ELSE PyStr("1")

\* C1 amended: True and every number equal to it (1, 1.0) map to "2", False
\* and every number equal to it (0) map to "3", "2" and "3" map to
\* themselves, every other hashable value (None included) maps to "1", and
\* an unhashable value makes the mapping step raise TypeError.
C1_RenderWireCode ==
    triCall.op = "render" =>
        LET v == triCall.value
        IN  IF v.t = "list" THEN triCall.exc = "TypeError"
            ELSE /\ triCall.exc = "none"
                 /\ triCall.out =
                      IF v.t \in {"bool", "int", "float"} /\ v.n = 1
                      THEN PyStr("2")
                      ELSE IF v.t \in {"bool", "int", "float"} /\ v.n = 0
                      THEN PyStr("3")
                      ELSE IF v.t = "str" /\ v.s \in {"2", "3"}
                      THEN PyStr(v.s)
                      ELSE PyStr("1")

\* C1 witness: the integer 1 has been rendered and went out as "2".
C1_Witness ==
    /\ triCall.op = "render"
    /\ triCall.value = PyInt(1)
    /\ triCall.out = PyStr("2")

\* C2 as stated: value_from_datadict returns True for "2", True, "True",
\* False for "3", False, "False", and None in every other case.
C2_AsStated ==
    triCall.op = "value_from_datadict" =>
        /\ triCall.exc = "none"
        /\ triCall.out =
             IF triCall.value \in {PyStr("2"), PyTrue, PyStr("True")}
             THEN PyTrue
             ELSE IF triCall.value \in {PyStr("3"), PyFalse, PyStr("False")}
             THEN PyFalse
             ELSE PyNone

\* C2 amended: value_from_datadict returns True for "2", "True", True and
\* every number equal to True (1, 1.0), False for "3", "False", False and
\* every number equal to False (0), None for every other hashable value
\* (the code "1" and an absent name included), and raises TypeError for an
\* unhashable value.
C2_ParseValue ==
    triCall.op = "value_from_datadict" =>
        LET v == IF triCall.name \in DOMAIN triCall.data
                 THEN triCall.data[triCall.name] ELSE PyNone
        IN  IF v.t = "list" THEN triCall.exc = "TypeError"
            ELSE /\ triCall.exc = "none"
                 /\ triCall.out =
                      IF \/ v.t \in {"bool", "int", "float"} /\ v.n = 1
                         \/ v.t = "str" /\ v.s \in {"2", "True"}
                      THEN PyTrue
                      ELSE IF \/ v.t \in {"bool", "int", "float"} /\ v.n = 0
                              \/ v.t = "str" /\ v.s \in {"3", "False"}
                      THEN PyFalse
                      ELSE PyNone

\* C2 witness: the unknown code "1" was submitted under the name and parsed
\* to None, with another name holding "2".
C2_Witness ==
    /\ triCall.op = "value_from_datadict"
    /\ triCall.name \in DOMAIN triCall.data
    /\ triCall.data[triCall.name] = PyStr("1")
    /\ \E o \in DOMAIN triCall.data : triCall.data[o] = PyStr("2")
    /\ triCall.out = PyNone

---------------------------------------------------------------------------
(* Claims about BootstrapWidget.build_attrs (checked under SpecAttrs)      *)

\* The pre-existing class attribute of the call: the call-site one when
\* given, else the instance one; <<FALSE, _>> when neither gives one.
PreClass ==
    IF "class" \in DOMAIN baCall.extra.d THEN <<TRUE, baCall.extra.d["class"]>>
    ELSE IF "class" \in DOMAIN widget.attrs THEN <<TRUE, widget.attrs["class"]>>
    ELSE <<FALSE, <<>> >>

\* The entries of css, each preceded by a single space.
RECURSIVE SpacedAfter(_)
SpacedAfter(css) ==
    IF css = <<>> THEN <<>> ELSE <<SP>> \o css[1] \o SpacedAfter(Tail(css))

NoOuterSpace(s) == s = <<>> \/ (s[1] # SP /\ s[Len(s)] # SP)

OnlySpaces(s) == \A i \in 1..Len(s) : s[i] = SP

\* C7 as stated: for every pre-existing class value c the returned class is
\* c followed by each css_classes entry, single-space separated, with no
\* leading or trailing whitespace (c alone when css_classes is empty); with
\* no pre-existing class (or an empty one) it is the css_classes joined by
\* spaces.
C7_AsStated ==
    baCall.op = "build_attrs" =>
        LET css == CssClasses(widget.cls)
            got == baCall.result["class"]
        IN  /\ NoOuterSpace(got)
            /\ IF PreClass[1] /\ PreClass[2] # <<>>
               THEN got = PreClass[2] \o SpacedAfter(css)
               ELSE got = Join(<<SP>>, css)

\* C7 amended: the returned class never has leading or trailing
\* whitespace; for a pre-existing class value c that is not empty and has
\* no leading or trailing whitespace it is c followed by each css_classes
\* entry, single-space separated (c alone when css_classes is empty); when
\* there is no pre-existing class, or c is empty or all whitespace, it is
\* the css_classes joined by spaces.
C7_ClassValue ==
    baCall.op = "build_attrs" =>
        LET css == CssClasses(widget.cls)
            got == baCall.result["class"]
            c == PreClass[2]
        IN  /\ NoOuterSpace(got)
            /\ (~PreClass[1] \/ OnlySpaces(c)) => got = Join(<<SP>>, css)
            /\ (PreClass[1] /\ c # <<>> /\ NoOuterSpace(c))
                   => got = c \o SpacedAfter(css)

\* C7 witness: a DateInput built over the instance class "foo" returned
\* "foo form-control date".
C7_Witness ==
    /\ baCall.op = "build_attrs"
    /\ widget.cls = "DateInput"
    /\ PreClass = <<TRUE, <<"foo">> >>
    /\ "class" \notin DOMAIN baCall.extra.d
    /\ baCall.result["class"] = <<"foo", SP, "form-control", SP, "date">>

\* The attribute sources of the call, lowest precedence first.
AttrSources ==
    << widget.attrs,
       baCall.kwargs,
       IF widget.is_required THEN [k \in {"aria-required"} |-> <<"true">>]
       ELSE EmptyDict,
       IF widget.cls \in {"AutofocusTextInput", "AutofocusPasswordInput",
                          "AutofocusTextarea"}
       THEN [k \in {"autofocus"} |-> <<"autofocus">>] ELSE EmptyDict,
       baCall.extra.d >>

LastSource(k) ==
    CHOOSE i \in 1..5 :
        /\ k \in DOMAIN AttrSources[i]
        /\ \A j \in (i + 1)..5 : k \notin DOMAIN AttrSources[j]

\* C8: build_attrs merges instance attrs (with keyword arguments), the
\* aria-required default, the class-level extra_attrs and the call-site
\* extra_attrs in that order; every key other than 'class' comes out with
\* the value of the last source that defines it, so call-site values win.
C8_Precedence ==
    baCall.op = "build_attrs" =>
        LET keys == UNION { DOMAIN AttrSources[i] : i \in 1..5 } \ {"class"}
        IN  /\ DOMAIN baCall.result \ {"class"} = keys
            /\ \A k \in keys : baCall.result[k] = AttrSources[LastSource(k)][k]

\* C8 witness: a required AutofocusTextInput whose instance attrs, keyword
\* arguments and call-site extra_attrs all define keys the other sources
\* define too, and the call-site values came out.
C8_Witness ==
    /\ baCall.op = "build_attrs"
    /\ widget.cls = "AutofocusTextInput"
    /\ widget.is_required
    /\ DOMAIN widget.attrs = {"aria-required", "autofocus", "name"}
    /\ DOMAIN baCall.kwargs = {"name"}
    /\ DOMAIN baCall.extra.d = {"aria-required", "autofocus", "name"}
    /\ \A k \in OtherKeys : baCall.result[k] = <<"c">>

\* C9 as stated: a required widget's build_attrs result holds
\* aria-required = "true" for every combination of instance attrs,
\* class-level extra_attrs and call-site extra_attrs.
C9_AsStated ==
    (baCall.op = "build_attrs" /\ widget.is_required) =>
        /\ "aria-required" \in DOMAIN baCall.result
        /\ baCall.result["aria-required"] = <<"true">>

\* C9 amended: a required widget's build_attrs result holds the key
\* aria-required always, and its value is "true" whenever neither the
\* class-level extra_attrs nor the call-site extra_attrs define
\* aria-required themselves (whatever the instance attrs hold).
C9_AriaRequired ==
    (baCall.op = "build_attrs" /\ widget.is_required) =>
        /\ "aria-required" \in DOMAIN baCall.result
        /\ ("aria-required" \notin DOMAIN baCall.extra.d
              /\ "aria-required" \notin DOMAIN ExtraAttrsOf(extra_attrs, widget.cls))
             => baCall.result["aria-required"] = <<"true">>

\* C9 witness: a required widget whose instance attrs set aria-required to
\* something else still returned "true".
C9_Witness ==
    /\ baCall.op = "build_attrs"
    /\ widget.is_required
    /\ "aria-required" \in DOMAIN widget.attrs
    /\ widget.attrs["aria-required"] = <<"i">>
    /\ baCall.result["aria-required"] = <<"true">>

---------------------------------------------------------------------------
(* Claims about ModelWidgets (checked under SpecMW)                        *)

FieldNamed(k) ==
    mw.model_class[CHOOSE i \in 1..Len(mw.model_class) :
                       mw.model_class[i].name = k]

IsModelField(k) == \E i \in 1..Len(mw.model_class) : mw.model_class[i].name = k

IsOverrideKey(k) == \E i \in 1..Len(mw.overrides) : mw.overrides[i] = k

Styled == {"forms.TextInput", "forms.Select"}

\* C3 as stated: lookup of a name k returns overrides[k] when k is an
\* override key; otherwise the styled class when the class of the field's
\* default form widget is a key of widget_map; otherwise the field's own
\* default widget instance.
C3_AsStated ==
    (mwCall.op = "getitem" /\ (IsOverrideKey(mwCall.key) \/ IsModelField(mwCall.key))) =>
        LET k == mwCall.key
            r == mwCall.result
        IN  IF IsOverrideKey(k)
            THEN r.exc = "none" /\ r.kind = "override" /\ r.key = k
            ELSE IF FieldNamed(k).formfield \in Styled
            THEN /\ r.exc = "none" /\ r.kind = "class"
                 /\ r.cls = (IF FieldNamed(k).formfield = "forms.TextInput"
                             THEN "TextInput" ELSE "Select")
            ELSE r.exc = "none" /\ r.kind = "instance" /\ r.key = k

\* C3 amended: lookup of a name k returns overrides[k] when k is an
\* override key, whatever the model field is; otherwise, for a model field
\* that has a form field, the styled class when the class of its default
\* widget is a key of widget_map and else that default widget instance; for
\* a model field whose formfield() is None the lookup raises AttributeError.
C3_Lookup ==
    (mwCall.op = "getitem" /\ (IsOverrideKey(mwCall.key) \/ IsModelField(mwCall.key))) =>
        LET k == mwCall.key
            r == mwCall.result
        IN  IF IsOverrideKey(k)
            THEN r.exc = "none" /\ r.kind = "override" /\ r.key = k
            ELSE IF FieldNamed(k).formfield = "None"
            THEN r.exc = "AttributeError"
            ELSE IF FieldNamed(k).formfield \in Styled
            THEN /\ r.exc = "none" /\ r.kind = "class"
                 /\ r.cls = (IF FieldNamed(k).formfield = "forms.TextInput"
                             THEN "TextInput" ELSE "Select")
            ELSE /\ r.exc = "none" /\ r.kind = "instance" /\ r.key = k
                 /\ r.cls = FieldNamed(k).formfield

\* C3 witness: with an override on another field, the lookup of a Select
\* field returned the styled Select class.
C3_Witness ==
    /\ mwCall.op = "getitem"
    /\ mw.overrides # <<>>
    /\ ~IsOverrideKey(mwCall.key)
    /\ IsModelField(mwCall.key)
    /\ FieldNamed(mwCall.key).formfield = "forms.Select"
    /\ mwCall.result.kind = "class"
    /\ mwCall.result.cls = "Select"

\* The model's field names, in declaration order, without the names in S.
RECURSIVE FieldNamesWithout(_, _)
FieldNamesWithout(fields, S) ==
    IF fields = <<>> THEN <<>>
    ELSE (IF fields[1].name \in S THEN <<>> ELSE <<fields[1].name>>)
             \o FieldNamesWithout(Tail(fields), S)

\* C4: iterating a ModelWidgets completes without error and yields every
\* override key, then every other model field name in declaration order,
\* each name once.
C4_Iteration ==
    /\ it.exc = "none"
    /\ it.pc = "done" =>
         it.yielded = mw.overrides
                        \o FieldNamesWithout(mw.model_class, Range(mw.overrides))

\* C5: len() is the number of distinct names among the override keys and
\* the model's field names: a shared name counts once, and with overrides
\* None it is the number of model fields.
C5_Len ==
    mwCall.op = "len" =>
        /\ mwCall.n = Len(mw.overrides)
                        + Len(FieldNamesWithout(mw.model_class, Range(mw.overrides)))
        /\ mw.arg_none => mwCall.n = Len(mw.model_class)

\* C5 witness: len() was taken with a name that is both an override key and
\* a model field, and with an override key the model does not have.
C5_Witness ==
    /\ mwCall.op = "len"
    /\ \E k \in Range(mw.overrides) : IsModelField(k)
    /\ \E k \in Range(mw.overrides) : ~IsModelField(k)
    /\ Len(mw.model_class) = 2
    /\ mwCall.n = 3

\* C6 as stated: lookup of a name that is not a field of the model fails
\* with a lookup error, whatever the override mapping contains.
C6_AsStated ==
    (mwCall.op = "getitem" /\ ~IsModelField(mwCall.key)) =>
        mwCall.result.exc = "FieldDoesNotExist"

\* C6 amended: lookup of a name that is neither an override key nor a field
\* of the model fails with the model's lookup error (FieldDoesNotExist),
\* and no widget is returned; a name that is an override key returns the
\* override even when the model has no such field.
C6_UnknownField ==
    (mwCall.op = "getitem" /\ ~IsModelField(mwCall.key)) =>
        IF IsOverrideKey(mwCall.key)
        THEN mwCall.result.exc = "none" /\ mwCall.result.kind = "override"
        ELSE mwCall.result.exc = "FieldDoesNotExist" /\ mwCall.result.kind = ""

\* C6 witness: with overrides present, a name that is neither an override
\* key nor a model field was looked up and the lookup error came out.
C6_Witness ==
    /\ mwCall.op = "getitem"
    /\ mw.overrides # <<>>
    /\ ~IsOverrideKey(mwCall.key)
    /\ ~IsModelField(mwCall.key)
    /\ mwCall.result.exc = "FieldDoesNotExist"

---------------------------------------------------------------------------
(* Claims about the class-level dicts (checked under SpecTW)               *)

\* C10: the class-level dicts are never modified after class definition, so
\* the extra_context passed to one TemplateWidget never shows up in the
\* render context of another instance.
C10_ClassDictsReadOnly ==
    /\ extra_context = ClassDefExtraContext
    /\ extra_attrs = ClassDefExtraAttrs
    /\ (twCall.op = "render" /\ twCall.exc = "none") =>
         \A k \in DOMAIN twCall.params :
             k \in {"name", "value", "attrs", "widget"}
                \/ k \in DOMAIN given[twCall.inst]

=============================================================================
